---- MODULE Spec2Model ----
(***************************************************************************)
(* Model of xrotor/xrotor.py: the XRotor session object (private copy of   *)
(* the shared library, loaded handle, stored case) and its operate         *)
(* protocol, together with the calls made by src_python/test.py.           *)
(*                                                                         *)
(* The native solver is opaque.  Its state is modelled per loaded handle   *)
(* as the last accepted case, the last operate request and the two scalars *)
(* it keeps for read-back (residual, blade-angle change); the values of    *)
(* these scalars are chosen nondeterministically.                          *)
(***************************************************************************)
EXTENDS Integers, Sequences, FiniteSets

\* ------------------------------------------------------------------ bounds
MaxSessions == 2     \* XRotor objects in the multi-session specification
MaxVal == 1          \* argument values 1..MaxVal for thrust/torque/power/rpm
MaxOut == 1          \* native scalar outputs 0..MaxOut (residual, angle change)
MaxCase == 1         \* case descriptors 1..MaxCase

\* Python's None for a numeric argument.
None == -1

Sessions == 1 .. MaxSessions
Vals == 1 .. MaxVal
Outs == 0 .. MaxOut
Paths == 1 .. MaxSessions      \* names the temporary directory can hand out
Handles == 1 .. MaxSessions    \* values the loader can return
Platforms == {"windows", "posix"}

\* ------------------------------------------------------------ case values
\* A case descriptor: an identity and whether every field marshals
\* (attribute present, numeric).  Python's None is a descriptor that does not.
NoneCase == [id |-> 0, ok |-> FALSE]
Descriptors == {NoneCase} \cup [id : 1 .. MaxCase, ok : BOOLEAN]

\* -------------------------------------------------------- native requests
NoReq == [psel |-> 0, pval |-> None, ssel |-> 0, sval |-> None]
Request(psel, pval, ssel, sval) ==
    [psel |-> psel, pval |-> pval, ssel |-> ssel, sval |-> sval]

\* State of a library instance right after load and init().
FreshNative == [case |-> 0, op |-> NoReq, rms |-> 0, bac |-> 0]

VARIABLES platform, fs, loaded, native, sess, ev
vars == <<platform, fs, loaded, native, sess, ev>>

Unborn ==
    [st |-> "unborn", ref |-> FALSE, hasPath |-> FALSE, lib_path |-> 0,
     hasLib |-> FALSE, lib |-> 0, case |-> NoneCase]

NoArgs == <<None, None, None, None>>
NoEvent ==
    [op |-> "none", s |-> 0, args |-> NoArgs, exc |-> "", at |-> "",
     calls |-> <<>>, req |-> NoReq, ret |-> <<>>, pre |-> "", status |-> 0]
Event(op, s) == [NoEvent EXCEPT !.op = op, !.s = s]

Init ==
    /\ platform \in Platforms
    /\ fs = {}
    /\ loaded = {}
    /\ native = [h \in Handles |-> FreshNative]
    /\ sess = [s \in Sessions |-> Unborn]
    /\ ev = NoEvent

\* ------------------------------------------------- helpers from the source
\* A temporary-file routine that may hand out a name already in use.
NamedTemporaryFileAnyName(files) == Paths

\* tempfile.NamedTemporaryFile(delete=False): creates a file under a name
\* that does not exist yet; the result is the set of names it may return.
NamedTemporaryFile(files) == Paths \ files

\* cdll.LoadLibrary on a new file: a handle not currently in use.
LoadLibrary(inuse) == Handles \ inuse

\* Result of the native init() entry point: 0 success, 1 failure reported.
InitStatus == {0, 1}

\* Line 65: self._lib._handle raises AttributeError when _lib is not set.
del_raises(o) == ~o.hasLib

\* Lines 67-70: FreeLibrary exists only where ctypes.windll does.
FreeLibrary(plat, inuse, handle) ==
    IF plat = "windows" THEN inuse \ {handle} ELSE inuse

\* Lines 168-173: the explicit argument checks of operate.
MutuallyExclusive(thrust, torque, power) ==
    \/ (thrust # None /\ torque # None /\ power # None)
    \/ (thrust # None /\ torque # None)
    \/ (thrust # None /\ power # None)

\* The chain without its final else: a call with no argument is sent to the
\* native module as an rpm-only request.
DispatchNoElse(thrust, torque, power, rpm) ==
    IF thrust # None THEN
        IF rpm # None
        THEN [exc |-> "", req |-> Request(1, thrust, 1, rpm), pull |-> TRUE]
        ELSE [exc |-> "", req |-> Request(1, thrust, 2, None), pull |-> FALSE]
    ELSE IF torque # None THEN
        IF rpm # None
        THEN [exc |-> "", req |-> Request(2, torque, 1, rpm), pull |-> TRUE]
        ELSE [exc |-> "", req |-> Request(2, torque, 2, None), pull |-> FALSE]
    ELSE IF power # None THEN
        IF rpm # None
        THEN [exc |-> "", req |-> Request(3, power, 1, rpm), pull |-> TRUE]
        ELSE [exc |-> "", req |-> Request(3, power, 2, None), pull |-> FALSE]
    ELSE [exc |-> "", req |-> Request(4, rpm, 0, None), pull |-> FALSE]

\* The chain with the torque branch returning the residual alone when rpm
\* is given (the blade-angle change is not read).
DispatchTorqueNoPull(thrust, torque, power, rpm) ==
    IF thrust # None THEN
        IF rpm # None
        THEN [exc |-> "", req |-> Request(1, thrust, 1, rpm), pull |-> TRUE]
        ELSE [exc |-> "", req |-> Request(1, thrust, 2, None), pull |-> FALSE]
    ELSE IF torque # None THEN
        IF rpm # None
        THEN [exc |-> "", req |-> Request(2, torque, 1, rpm), pull |-> FALSE]
        ELSE [exc |-> "", req |-> Request(2, torque, 2, None), pull |-> FALSE]
    ELSE IF power # None THEN
        IF rpm # None
        THEN [exc |-> "", req |-> Request(3, power, 1, rpm), pull |-> TRUE]
        ELSE [exc |-> "", req |-> Request(3, power, 2, None), pull |-> FALSE]
    ELSE IF rpm # None
        THEN [exc |-> "", req |-> Request(4, rpm, 0, None), pull |-> FALSE]
        ELSE [exc |-> "ValueError", req |-> NoReq, pull |-> FALSE]

\* Lines 175-199: the if/elif chain of operate.  exc is the exception raised
\* by the chain itself, req the native operate request, pull whether
\* get_blade_angle_change is read after the solve.
Dispatch(thrust, torque, power, rpm) ==
    IF thrust # None THEN
        IF rpm # None
        THEN [exc |-> "", req |-> Request(1, thrust, 1, rpm), pull |-> TRUE]
        ELSE [exc |-> "", req |-> Request(1, thrust, 2, None), pull |-> FALSE]
    ELSE IF torque # None THEN
        IF rpm # None
        THEN [exc |-> "", req |-> Request(2, torque, 1, rpm), pull |-> TRUE]
        ELSE [exc |-> "", req |-> Request(2, torque, 2, None), pull |-> FALSE]
    ELSE IF power # None THEN
        IF rpm # None
        THEN [exc |-> "", req |-> Request(3, power, 1, rpm), pull |-> TRUE]
        ELSE [exc |-> "", req |-> Request(3, power, 2, None), pull |-> FALSE]
    ELSE IF rpm # None
        THEN [exc |-> "", req |-> Request(4, rpm, 0, None), pull |-> FALSE]
        ELSE [exc |-> "ValueError", req |-> NoReq, pull |-> FALSE]

\* The native operate entry point: records the request, produces a residual,
\* and in a constrained-RPM solve (secondary selector 1) a blade-angle change.
NativeOperate(n, req, rms, bac) ==
    [n EXCEPT !.op = req, !.rms = rms, !.bac = IF req.ssel = 1 THEN bac ELSE @]

\* What get_performance reports: a snapshot of the native operating point.
Snapshot(n) == <<n.case, n.op.psel, n.op.pval, n.op.ssel, n.op.sval>>

\* The two positional calls of the test suite, operate(a, b).
TestCalls == {<<1, 2000>>, <<2, 500>>}

\* ---------------------------------------------------------------- actions
\* XRotor.__init__ (lines 48-62).  names and addrs are the file names and the
\* handle values the operating system has on offer.
XRotor_init(s, names, addrs) ==
    /\ sess[s].st = "unborn"
    /\ \E p \in NamedTemporaryFile(fs) \cap names :
        /\ fs' = fs \cup {p}
        /\ \/ \* copy2 raises: _lib_path is set, _lib is not
              /\ sess' = [sess EXCEPT ![s] =
                    [@ EXCEPT !.st = "failed", !.hasPath = TRUE, !.lib_path = p]]
              /\ ev' = [Event("init", s) EXCEPT !.exc = "OSError", !.at = "copy2"]
              /\ UNCHANGED <<loaded, native>>
           \/ \* LoadLibrary raises
              /\ sess' = [sess EXCEPT ![s] =
                    [@ EXCEPT !.st = "failed", !.hasPath = TRUE, !.lib_path = p]]
              /\ ev' = [Event("init", s) EXCEPT !.exc = "OSError", !.at = "LoadLibrary"]
              /\ UNCHANGED <<loaded, native>>
           \/ \* loaded; init() is called and its result is discarded
              \E h \in LoadLibrary(loaded) \cap addrs, r \in InitStatus :
                /\ loaded' = loaded \cup {h}
                /\ native' = [native EXCEPT ![h] = FreshNative]
                /\ sess' = [sess EXCEPT ![s] =
                      [st |-> "usable", ref |-> TRUE, hasPath |-> TRUE, lib_path |-> p,
                       hasLib |-> TRUE, lib |-> h, case |-> NoneCase]]
                /\ ev' = [Event("init", s) EXCEPT !.calls = <<"init">>, !.status = r]
    /\ UNCHANGED platform

\* XRotor.__del__ (lines 64-72): run by the collector on any constructed or
\* half-constructed object, or called explicitly, any number of times.
XRotor_del(s) ==
    /\ sess[s].st # "unborn"
    /\ LET o == sess[s]
           e == [Event("del", s) EXCEPT !.pre = o.st]
       IN  IF del_raises(o)
           THEN /\ ev' = [e EXCEPT !.exc = "AttributeError", !.at = "_lib"]
                /\ sess' = [sess EXCEPT ![s].st = "deleted"]
                /\ UNCHANGED <<fs, loaded, native>>
           ELSE /\ loaded' = FreeLibrary(platform, loaded, o.lib)
                /\ native' = IF o.lib \in loaded'
                             THEN native
                             ELSE [native EXCEPT ![o.lib] = FreshNative]
                /\ sess' = [sess EXCEPT ![s] =
                      [@ EXCEPT !.st = "deleted", !.hasLib = FALSE, !.lib = 0]]
                /\ IF o.lib_path \in fs
                   THEN /\ fs' = fs \ {o.lib_path}
                        /\ ev' = [e EXCEPT !.calls =
                              IF platform = "windows"
                              THEN <<"FreeLibrary", "remove">> ELSE <<"remove">>]
                   ELSE /\ fs' = fs
                        /\ ev' = [e EXCEPT !.exc = "FileNotFoundError", !.at = "remove"]
    /\ UNCHANGED platform

\* The case setter (lines 97-119).
case_setter(s, c) ==
    /\ sess[s].ref
    /\ sess' = [sess EXCEPT ![s].case = c]
    /\ LET o == sess[s]
           e == Event("set_case", s)
       IN  IF ~o.hasLib
           THEN /\ ev' = [e EXCEPT !.exc = "AttributeError", !.at = "_lib"]
                /\ UNCHANGED native
           ELSE IF ~c.ok
           THEN /\ ev' = [e EXCEPT !.exc = "TypeError", !.at = "marshal"]
                /\ UNCHANGED native
           ELSE /\ native' = [native EXCEPT ![o.lib].case = c.id]
                /\ ev' = [e EXCEPT !.calls = <<"set_case">>]
    /\ UNCHANGED <<platform, fs, loaded>>

\* XRotor.operate (lines 144-199).  outs are the values the native module may
\* produce for the residual and for the blade-angle change.
operate(s, thrust, torque, power, rpm, outs) ==
    /\ sess[s].ref
    /\ LET o == sess[s]
           d == Dispatch(thrust, torque, power, rpm)
           e == [Event("operate", s) EXCEPT !.args = <<thrust, torque, power, rpm>>]
       IN  IF MutuallyExclusive(thrust, torque, power)
           THEN /\ ev' = [e EXCEPT !.exc = "ValueError", !.at = "check"]
                /\ UNCHANGED native
           ELSE IF d.exc # ""
           THEN /\ ev' = [e EXCEPT !.exc = d.exc, !.at = "else"]
                /\ UNCHANGED native
           ELSE IF ~o.hasLib
           THEN /\ ev' = [e EXCEPT !.exc = "AttributeError", !.at = "_lib"]
                /\ UNCHANGED native
           ELSE \E rms \in outs, bac \in IF d.req.ssel = 1 THEN outs ELSE {native[o.lib].bac} :
                LET n2 == NativeOperate(native[o.lib], d.req, rms, bac)
                IN  /\ native' = [native EXCEPT ![o.lib] = n2]
                    /\ ev' = [e EXCEPT
                          !.req = d.req,
                          !.calls = IF d.pull
                                    THEN <<"operate", "get_blade_angle_change">>
                                    ELSE <<"operate">>,
                          !.ret = IF d.pull THEN <<n2.rms, n2.bac>> ELSE <<n2.rms>>]
    /\ UNCHANGED <<platform, fs, loaded, sess>>

\* The performance property (lines 121-128).
performance(s) ==
    /\ sess[s].ref
    /\ LET o == sess[s]
           e == Event("performance", s)
       IN  IF ~o.hasLib
           THEN ev' = [e EXCEPT !.exc = "AttributeError", !.at = "_lib"]
           ELSE ev' = [e EXCEPT !.calls = <<"get_performance">>,
                                !.ret = Snapshot(native[o.lib])]
    /\ UNCHANGED <<platform, fs, loaded, native, sess>>

\* The rms property (lines 139-142).
rms_getter(s) ==
    /\ sess[s].ref
    /\ LET o == sess[s]
           e == Event("rms", s)
       IN  IF ~o.hasLib
           THEN ev' = [e EXCEPT !.exc = "AttributeError", !.at = "_lib"]
           ELSE ev' = [e EXCEPT !.calls = <<"get_rms">>, !.ret = <<native[o.lib].rms>>]
    /\ UNCHANGED <<platform, fs, loaded, native, sess>>

\* --------------------------------------------------------- specifications
ArgVals == Vals \cup {None}

\* The operate protocol: one session, every argument combination of operate,
\* every native output, the two result pulls.
Next ==
    \/ XRotor_init(1, {1}, {1})
    \/ XRotor_del(1)
    \/ \E t, q, p, r \in ArgVals : operate(1, t, q, p, r, Outs)
    \/ performance(1)
    \/ rms_getter(1)

Spec == Init /\ [][Next]_vars

\* Argument tuples used where the argument combination is not the subject:
\* rpm only, thrust with rpm, thrust only, and no argument.
SampleArgs == {<<None, None, None, 1>>, <<1, None, None, 1>>,
               <<1, None, None, None>>, NoArgs}

\* Case pushes and the calls of the test suite on one session.
NextCase ==
    \/ XRotor_init(1, {1}, {1})
    \/ XRotor_del(1)
    \/ \E c \in Descriptors : case_setter(1, c)
    \/ \E a \in SampleArgs : operate(1, a[1], a[2], a[3], a[4], Outs)
    \/ \E tc \in TestCalls : operate(1, tc[1], tc[2], None, None, Outs)
    \/ performance(1)

SpecCase == Init /\ [][NextCase]_vars

\* Several sessions interleaving open, operate, pull and close.  operate is
\* called rpm-only and with thrust and rpm, and the native outputs are held
\* at 0 here; Spec and SpecCase vary both.
SessionArgs == {<<None, None, None, 1>>, <<1, None, None, 1>>}

NextSessions ==
    \E s \in Sessions :
        \/ XRotor_init(s, Paths, Handles)
        \/ XRotor_del(s)
        \/ \E a \in SessionArgs : operate(s, a[1], a[2], a[3], a[4], {0})
        \/ performance(s)

SpecSessions == Init /\ [][NextSessions]_vars

\* ------------------------------------------------------------- properties
Given(x) == x # None
NumPrimary(a) ==
    (IF Given(a[1]) THEN 1 ELSE 0) + (IF Given(a[2]) THEN 1 ELSE 0)
        + (IF Given(a[3]) THEN 1 ELSE 0)
Presence(a) == <<Given(a[1]), Given(a[2]), Given(a[3]), Given(a[4])>>
Live(s) == sess[s].st = "usable"
Accepted == ev.op = "operate" /\ ev.exc = ""
NativeEntryPoints == {"operate", "get_blade_angle_change"}
CallsTo(names) == {i \in DOMAIN ev.calls : ev.calls[i] \in names}

\* C1: every operate call that supplies two or more of thrust, torque and
\* power fails with ValueError and invokes no native entry point.
C1_MutualExclusivity ==
    (ev.op = "operate" /\ NumPrimary(ev.args) >= 2)
        => (ev.exc = "ValueError" /\ CallsTo(NativeEntryPoints) = {})

\* C2: an operate call that supplies none of thrust, torque, power and rpm
\* raises ValueError before any native call, so the native state (operating
\* point, last residual, last blade-angle change) is the same after the call.
C2_NoTargetFails ==
    [][(ev'.op = "operate" /\ ev'.args = NoArgs)
        => (ev'.exc = "ValueError" /\ ev'.calls = <<>> /\ native' = native)]_vars

\* C2 witness: the no-argument call was rejected on a session whose native
\* module already holds the operating point of an earlier solve.
C2_Witness ==
    /\ ev.op = "operate" /\ ev.args = NoArgs /\ ev.exc = "ValueError"
    /\ sess[1].hasLib
    /\ native[sess[1].lib].op # NoReq
    /\ native[sess[1].lib].rms # 0

\* C3: the result of an accepted operate call follows the mode: rpm only, or
\* one primary target without rpm, returns the residual alone and does not
\* read the blade-angle change; one primary target with rpm returns the pair
\* (residual, blade-angle change), the latter read right after the solve.
C3_ResultShape ==
    Accepted =>
        LET a == ev.args
            n == native[sess[ev.s].lib]
        IN  /\ (NumPrimary(a) = 0 /\ Given(a[4]))
                => (ev.ret = <<n.rms>> /\ ev.calls = <<"operate">>)
            /\ (NumPrimary(a) = 1 /\ ~Given(a[4]))
                => (ev.ret = <<n.rms>> /\ ev.calls = <<"operate">>)
            /\ (NumPrimary(a) = 1 /\ Given(a[4]))
                => (/\ ev.ret = <<n.rms, n.bac>>
                    /\ ev.calls = <<"operate", "get_blade_angle_change">>)

\* C3 witness: a torque-with-rpm call returned a pair whose blade-angle
\* change differs from the value the module held at load.
C3_Witness ==
    /\ Accepted
    /\ Presence(ev.args) = <<FALSE, TRUE, FALSE, TRUE>>
    /\ Len(ev.ret) = 2
    /\ ev.ret[2] # FreshNative.bac

\* C4: a second teardown of a session that was already torn down does not
\* raise, does not unload the handle again and does not try to remove the
\* temporary copy again.
C4_TeardownIdempotent ==
    (ev.op = "del" /\ ev.pre = "deleted" /\ sess[ev.s].ref)
        => (ev.exc = "" /\ ev.calls = <<>>)

\* C5: teardown after a failed construction does not raise and removes the
\* temporary copy, so that when no session is alive no temporary copy remains.
C5_NoLeak ==
    /\ (ev.op = "del" /\ ev.pre = "failed") => ev.exc = ""
    /\ (\A s \in Sessions : sess[s].st \in {"unborn", "deleted"}) => fs = {}

\* C6: every live session has its own temporary copy and its own loaded
\* handle, both present, and a step of one session (open, operate, pull,
\* close) leaves every other live session, its copy, its handle and the
\* native state behind that handle as they were.
C6_Isolation ==
    /\ [](\A s \in Sessions : Live(s) =>
            /\ sess[s].lib_path \in fs
            /\ sess[s].lib \in loaded
            /\ \A t \in Sessions \ {s} : Live(t) =>
                  /\ sess[t].lib_path # sess[s].lib_path
                  /\ sess[t].lib # sess[s].lib)
    /\ [][\A t \in Sessions : (Live(t) /\ ev'.s # t) =>
            /\ sess'[t] = sess[t]
            /\ sess[t].lib_path \in fs'
            /\ sess[t].lib \in loaded'
            /\ native'[sess[t].lib] = native[sess[t].lib]]_vars

\* C6 witness: one of two live sessions has just been torn down and the other
\* is still live with a solve recorded in its own native module.
C6_Witness ==
    /\ ev.op = "del" /\ ev.exc = "" /\ ev.pre = "usable"
    /\ \E t \in Sessions \ {ev.s} :
          /\ Live(t)
          /\ sess[t].lib_path \in fs
          /\ native[sess[t].lib].op # NoReq

\* C7: opening fails whenever the native init entry point reports failure,
\* and the session is then not usable.
C7_InitFailureFatal ==
    (ev.op = "init" /\ "init" \in {ev.calls[i] : i \in DOMAIN ev.calls} /\ ev.status # 0)
        => (ev.exc # "" /\ ~sess[ev.s].ref)

\* C8: on a session with a case pushed, each two-positional-argument call of
\* the test suite is accepted and performs exactly one native solve:
\* operate(1, 2000) at fixed rpm 2000, operate(2, 500) for thrust 500 with
\* rpm free.
C8_TestCallsAccepted ==
    \A tc \in TestCalls :
        (/\ ev.op = "operate"
         /\ ev.args = <<tc[1], tc[2], None, None>>
         /\ sess[ev.s].hasLib
         /\ native[sess[ev.s].lib].case # 0)
            => (/\ ev.exc = ""
                /\ ev.calls = <<"operate">>
                /\ ev.req = IF tc[1] = 1
                            THEN Request(4, tc[2], 0, None)
                            ELSE Request(1, tc[2], 2, None))

\* The argument combination a pair of selectors stands for.
ModeOf(psel, ssel) ==
    <<psel = 1, psel = 2, psel = 3, psel = 4 \/ ssel = 1>>

\* C9: every accepted operate call issues exactly one native operate request;
\* the primary selector is 1, 2, 3 with the thrust, torque, power value, or 4
\* with the rpm value when rpm is the only argument; with a primary target the
\* secondary selector is 1 with the rpm value, or 2 with no value when rpm is
\* absent; and the selectors identify the argument combination (the accepted
\* combinations map to pairwise distinct selector pairs).
C9_SelectorsIdentifyMode ==
    Accepted =>
        LET a == ev.args
            r == ev.req
        IN  /\ Cardinality(CallsTo({"operate"})) = 1
            /\ \/ r.psel = 1 /\ Given(a[1]) /\ r.pval = a[1]
               \/ r.psel = 2 /\ Given(a[2]) /\ r.pval = a[2]
               \/ r.psel = 3 /\ Given(a[3]) /\ r.pval = a[3]
               \/ r.psel = 4 /\ Given(a[4]) /\ r.pval = a[4] /\ NumPrimary(a) = 0
            /\ r.psel \in 1 .. 3 =>
                  IF Given(a[4]) THEN r.ssel = 1 /\ r.sval = a[4]
                                 ELSE r.ssel = 2 /\ r.sval = None
            /\ r.psel = 4 => (r.ssel = 0 /\ r.sval = None)
            /\ Presence(a) = ModeOf(r.psel, r.ssel)

\* C10: the case read back from a session is the descriptor most recently
\* transmitted to the native module (None when none was); a push that raises
\* while marshaling leaves the stored case unchanged.
C10_CaseAtomic ==
    \A s \in Sessions : (sess[s].ref /\ sess[s].hasLib) =>
        /\ sess[s].case.id = native[sess[s].lib].case
        /\ sess[s].case # NoneCase => sess[s].case.ok

====
